---- MODULE Spec2Model ----
(***************************************************************************)
(* The attachment pipeline of the slack event handler: processFiles        *)
(* validates the batch, then runs processFile on every attachment in       *)
(* order (download, unzip, themer, remove the template, zip, attach,       *)
(* remove the staging root).  External calls (HTTP transport, archive      *)
(* helper, themer process, filesystem, slack upload) answer               *)
(* nondeterministically; the control flow is the code's.                   *)
(***************************************************************************)
EXTENDS Integers, Sequences, FiniteSets, TLC

\* ------------------------------------------------------------- bounds
\* Longest batch (message.Files) explored.
MaxFiles == 2

\* ---------------------------------------------------------- constants
zipFileType == "zip"
defaultResultFilename == "result.zip"
StatusBadRequest == 400

\* Go map[string]string literal.
supportedFileTypes == [t \in {zipFileType} |-> zipFileType]

\* A Go map read: the zero value "" for an absent key.
MapGet(m, k) == IF k \in DOMAIN m THEN m[k] ELSE ""

\* ------------------------------------------------------------- inputs
\* Paths and identifiers are sequences of tokens, so that Go's string
\* concatenation is sequence concatenation and "/" is a token of its own.
\* "F1", "F2" and "F12": the last one extends the first as a string.
IDs == {<<"F1">>, <<"F2">>, <<"F1", "2">>}
Filetypes == {"zip", "rar", ""}
Files == [ID : IDs, Filetype : Filetypes]
EmptyFile == [ID |-> <<>>, Filetype |-> ""]
Channel == "C1"

ExitStatuses == {0, 1, 2}
StatusCodes == {200, 399, 400, 404}

\* Batches of at most n attachments.
Batches(n) == UNION {[1..k -> Files] : k \in 0..n}

\* ------------------------------------------------------------- errors
Nil == [kind |-> "nil", code |-> 0]
Err(k, c) == [kind |-> k, code |-> c]

\* -------------------------------------------------------------- paths
TempDir == <<"/tmp">>

\* q is p or lies below p.
Under(q, p) ==
    \/ q = p
    \/ /\ Len(q) > Len(p)
       /\ SubSeq(q, 1, Len(p)) = p
       /\ q[Len(p) + 1] = "/"

\* The directory holding p: p up to its last "/" token.
Dir(p) ==
    LET slashes == {k \in 1..Len(p) : p[k] = "/"}
        last == CHOOSE k \in slashes : \A j \in slashes : j <= k
    IN  IF slashes = {} THEN <<>> ELSE SubSeq(p, 1, last - 1)

\* os.RemoveAll on success: p and everything below it is gone.
RemoveAll(fs, p) == {q \in fs : ~Under(q, p)}

\* os.RemoveAll on failure: p itself remains, any part below it may be gone.
RemoveAllFailed(fs, p) == {fs, {q \in fs : ~Under(q, p) \/ q = p}}

\* One staging root for every attachment.
src_shared(file) == TempDir \o <<"staging">>

src(file) == TempDir \o file.ID
pathToFiles(file) == src(file) \o <<"/", "downloaded_template">>
resultFilePath(file) == src(file) \o <<"/", defaultResultFilename>>
\* What the archive holds, and what the themer writes beside the template.
payloadOf(dest) == dest \o <<"/", "payload">>
outputOf(root) == root \o <<"/", "output">>
\* ioutil.TempFile(os.TempDir(), "devbot-*.zip"): a fresh name per call.
TempFileName(n) == TempDir \o <<"/", "devbot-", ToString(n), ".zip">>

\* What an earlier, failed run for this identifier may have left behind.
Leftover(id) ==
    LET f == [ID |-> id, Filetype |-> zipFileType]
    IN  {src(f), pathToFiles(f), payloadOf(pathToFiles(f)), outputOf(src(f))}

\* origin maps a file on disk, or an upload in the channel, to the runs whose
\* downloads its content derives from; it is used where two runs share the
\* disk and is empty in a single run.
VARIABLES files, pc, i, tmpFile, tmpSeq, fs, log, uploaded, pfRet, ret, origin

vars == <<files, pc, i, tmpFile, tmpSeq, fs, log, uploaded, pfRet, ret, origin>>

\* ----------------------------------------------------------- validation
isValidFile(fileType) == MapGet(supportedFileTypes, fileType) # ""

\* A validation that looks at the first attachment only.
validateFiles_headOnly(fl) ==
    IF fl # <<>> /\ ~isValidFile(Head(fl).Filetype)
    THEN [file |-> Head(fl), err |-> Err("WrongFileType", 0)]
    ELSE [file |-> EmptyFile, err |-> Nil]

RECURSIVE validateFiles(_)
validateFiles(fl) ==
    IF fl = <<>> THEN [file |-> EmptyFile, err |-> Nil]
    ELSE IF ~isValidFile(Head(fl).Filetype)
         THEN [file |-> Head(fl), err |-> Err("WrongFileType", 0)]
         ELSE validateFiles(Tail(fl))

\* ------------------------------------------------- external collaborators
\* One outcome of an external call: its error, the filesystem and the
\* channel's uploads after it.
Out(err, nfs, up) == [err |-> err, fs |-> nfs, up |-> up]

NetOutcomes == [kind : {"newreq_fail", "resp_nil", "read_fail", "resp"}, status : StatusCodes]
IoOutcomes == {"tempfile_fail", "write_fail", "close_fail", "ok"}

\* A request that lets status 400 through.
request_above400(net) ==
    IF net.kind = "newreq_fail"
    THEN [body |-> "nil", status |-> 0, err |-> Err("NewRequest", 0)]
    ELSE IF net.kind = "resp_nil"
    THEN [body |-> "nil", status |-> 0, err |-> Err("NilResponse", 0)]
    ELSE IF net.kind = "read_fail"
    THEN [body |-> "bytes", status |-> 0, err |-> Err("ReadAll", 0)]
    ELSE IF net.status > StatusBadRequest
    THEN [body |-> "bytes", status |-> net.status, err |-> Err("BadStatus", net.status)]
    ELSE [body |-> "bytes", status |-> net.status, err |-> Nil]

\* SlackClient.request: (bytes, status code, error).
request(net) ==
    IF net.kind = "newreq_fail"
    THEN [body |-> "nil", status |-> 0, err |-> Err("NewRequest", 0)]
    ELSE IF net.kind = "resp_nil"
    THEN [body |-> "nil", status |-> 0, err |-> Err("NilResponse", 0)]
    ELSE IF net.kind = "read_fail"
    THEN [body |-> "bytes", status |-> 0, err |-> Err("ReadAll", 0)]
    ELSE IF net.status >= StatusBadRequest
    THEN [body |-> "bytes", status |-> net.status, err |-> Err("BadStatus", net.status)]
    ELSE [body |-> "bytes", status |-> net.status, err |-> Nil]

\* The HTTP status the transport received: 0 when no response was read.
RawStatus(net) == IF net.kind = "resp" THEN net.status ELSE 0

\* Whether the outside world made the download fail: no response read, a
\* status of 400 or more, or the temporary file not written.
DownloadFault(net, io) ==
    net.kind # "resp" \/ net.status >= 400 \/ io # "ok"

\* A download that does not look at the error of tmpFile.Close().
downloadFile_closeIgnored(net, io, n) ==
    LET r == request(net)
    IN  IF r.err # Nil
        THEN [tmpFile |-> <<>>, err |-> r.err, created |-> FALSE]
        ELSE IF io = "tempfile_fail"
        THEN [tmpFile |-> <<>>, err |-> Err("TempFile", 0), created |-> FALSE]
        ELSE IF io = "write_fail"
        THEN [tmpFile |-> <<>>, err |-> Err("Write", 0), created |-> TRUE]
        ELSE [tmpFile |-> TempFileName(n), err |-> Nil, created |-> TRUE]

\* downloadFile: the temporary file (named, nil on error), the error, and
\* whether a file was created on disk.
downloadFile(net, io, n) ==
    LET r == request(net)
    IN  IF r.err # Nil
        THEN [tmpFile |-> <<>>, err |-> r.err, created |-> FALSE]
        ELSE IF io = "tempfile_fail"
        THEN [tmpFile |-> <<>>, err |-> Err("TempFile", 0), created |-> FALSE]
        ELSE IF io = "write_fail"
        THEN [tmpFile |-> <<>>, err |-> Err("Write", 0), created |-> TRUE]
        ELSE IF io = "close_fail"
        THEN [tmpFile |-> <<>>, err |-> Err("Close", 0), created |-> TRUE]
        ELSE [tmpFile |-> TempFileName(n), err |-> Nil, created |-> TRUE]

\* helper.Unzip(archive, dest): dest populated with the archive's contents,
\* or an error with dest possibly created.
Unzip(nfs, up, archive, dest) ==
    {Out(Nil, nfs \cup {Dir(dest), dest, payloadOf(dest)}, up) : ok \in {TRUE} \cap {archive \in nfs}}
    \cup
    {Out(Err("Unzip", 0), nfs, up),
     Out(Err("Unzip", 0), nfs \cup {Dir(dest), dest}, up)}

\* How the themer process ends: an exit status, or -1 when it cannot be
\* started.
ProcessEnds == ExitStatuses \cup {-1}

\* An ExitError that does not keep the program's status.
cmdRun_statusLost(s) ==
    IF s = -1 THEN Err("ExecError", 0)
    ELSE IF s = 0 THEN Nil
    ELSE Err("ExitError", 1)

\* The error of cmd.Run(): nil on exit status 0, an ExitError carrying the
\* status otherwise, another error when the program cannot be started.
cmdRun(s) ==
    IF s = -1 THEN Err("ExecError", 0)
    ELSE IF s = 0 THEN Nil
    ELSE Err("ExitError", s)

\* The themer on path: a started program writes its output beside the
\* template, or not.
themer(nfs, up, path, s) ==
    {Out(cmdRun(s), n2, up) :
        n2 \in IF s = -1 THEN {nfs} ELSE {nfs, nfs \cup {outputOf(Dir(path))}}}

\* deleteSrc(p) = os.RemoveAll(p).
deleteSrc(nfs, up, p) ==
    {Out(Nil, RemoveAll(nfs, p), up)}
    \cup {Out(Err("RemoveAll", 0), n2, up) : n2 \in RemoveAllFailed(nfs, p)}

\* helper.Zip(dir, archive): the archive written, or an error with a
\* partial archive possibly left; an error when dir does not exist.
Zip(nfs, up, dir, archive) ==
    {Out(Nil, nfs \cup {archive}, up) : ok \in {TRUE} \cap {dir \in nfs}}
    \cup
    {Out(Err("Zip", 0), nfs, up)}
    \cup
    {Out(Err("Zip", 0), nfs \cup {archive}, up) : ok \in {TRUE} \cap {dir \in nfs}}

\* SlackClient.AttachFileTo(channel, path, name): one attempt, which fails
\* when there is no file at path.
AttachFileTo(nfs, up, channel, path, name) ==
    {Out(Nil, nfs, Append(up, [channel |-> channel, path |-> path, name |-> name])) :
        ok \in {TRUE} \cap {path \in nfs}}
    \cup
    {Out(Err("AttachFileTo", 0), nfs, up)}

\* The history of calls: the stage, the attachment's index in the batch (0
\* for validation), the error the call returned to its caller, and what the
\* outside world answered (whether it failed, and the HTTP or exit status).
Event(stage, idx, err, fault, status) ==
    [stage |-> stage, idx |-> idx, err |-> err, fault |-> fault, status |-> status]

Init ==
    /\ files \in Batches(MaxFiles)
    /\ pc = "validate"
    /\ i = 0
    /\ tmpFile = <<>>
    /\ tmpSeq = 0
    /\ fs \in {UNION {Leftover(id) : id \in S} : S \in SUBSET IDs}
    /\ log = <<>>
    /\ uploaded = <<>>
    /\ pfRet = [file |-> EmptyFile, err |-> Nil]
    /\ ret = [done |-> FALSE, file |-> EmptyFile, err |-> Nil]
    /\ origin = <<>>

\* processFiles, lines 132-135.
ValidateFiles ==
    /\ pc = "validate"
    /\ LET r == validateFiles(files)
       IN  /\ log' = Append(log, Event("validate", 0, r.err, FALSE, 0))
           /\ IF r.err # Nil
              THEN /\ ret' = [done |-> TRUE, file |-> r.file, err |-> r.err]
                   /\ pc' = "done"
                   /\ i' = i
              ELSE /\ pc' = "loop"
                   /\ i' = 1
                   /\ ret' = ret
    /\ UNCHANGED <<origin, files, tmpFile, tmpSeq, fs, uploaded, pfRet>>

\* processFiles, line 137: the next attachment, or line 144.
LoopNext ==
    /\ pc = "loop"
    /\ IF i <= Len(files)
       THEN /\ pc' = "download"
            /\ ret' = ret
       ELSE /\ pc' = "done"
            /\ ret' = [done |-> TRUE, file |-> EmptyFile, err |-> Nil]
    /\ UNCHANGED <<origin, files, i, tmpFile, tmpSeq, fs, log, uploaded, pfRet>>

\* processFile's `return file, err`.
Return(file, err) ==
    /\ pfRet' = [file |-> file, err |-> err]
    /\ pc' = "returned"

\* One stage of processFile: the call, then `if err != nil { return file, err }`.
StageStep(stage, outs, next) ==
    \E o \in outs :
        /\ fs' = o.fs
        /\ uploaded' = o.up
        /\ log' = Append(log, Event(stage, i, o.err, o.err # Nil, 0))
        /\ IF o.err # Nil
           THEN Return(files[i], o.err)
           ELSE /\ pc' = next
                /\ pfRet' = pfRet

\* processFile, lines 46-49.
DownloadFile ==
    /\ pc = "download"
    /\ \E net \in NetOutcomes, io \in IoOutcomes :
        LET d == downloadFile(net, io, tmpSeq + 1)
        IN  /\ tmpSeq' = IF d.created THEN tmpSeq + 1 ELSE tmpSeq
            /\ fs' = IF d.created THEN fs \cup {TempFileName(tmpSeq + 1)} ELSE fs
            /\ tmpFile' = d.tmpFile
            /\ log' = Append(log, Event("download", i, d.err,
                                         DownloadFault(net, io), RawStatus(net)))
            /\ IF d.err # Nil
               THEN Return(files[i], d.err)
               ELSE /\ pc' = "unzip"
                    /\ pfRet' = pfRet
    /\ UNCHANGED <<origin, files, i, uploaded, ret>>

\* A stage whose error is logged but not returned.
StageStepUnchecked(stage, outs, next) ==
    \E o \in outs :
        /\ fs' = o.fs
        /\ uploaded' = o.up
        /\ log' = Append(log, Event(stage, i, o.err, o.err # Nil, 0))
        /\ pc' = next
        /\ pfRet' = pfRet

\* An extraction that removes the downloaded archive when it is done.
UnzipFile_tmpRemoved ==
    /\ pc = "unzip"
    /\ \E o \in Unzip(fs, uploaded, tmpFile, pathToFiles(files[i])) :
        /\ fs' = o.fs \ {tmpFile}
        /\ uploaded' = o.up
        /\ log' = Append(log, Event("unzip", i, o.err, o.err # Nil, 0))
        /\ IF o.err # Nil
           THEN Return(files[i], o.err)
           ELSE /\ pc' = "transform"
                /\ pfRet' = pfRet
    /\ UNCHANGED <<origin, files, i, tmpFile, tmpSeq, ret>>

\* The extraction's error not returned.
UnzipFile_errIgnored ==
    /\ pc = "unzip"
    /\ StageStepUnchecked("unzip", Unzip(fs, uploaded, tmpFile, pathToFiles(files[i])),
                          "transform")
    /\ UNCHANGED <<origin, files, i, tmpFile, tmpSeq, ret>>

\* processFile, lines 56-59.
UnzipFile ==
    /\ pc = "unzip"
    /\ StageStep("unzip", Unzip(fs, uploaded, tmpFile, pathToFiles(files[i])), "transform")
    /\ UNCHANGED <<origin, files, i, tmpFile, tmpSeq, ret>>

\* A failed themer followed by the removal of the staging root.
Transform_teardown ==
    /\ pc = "transform"
    /\ \E s \in ProcessEnds :
        \E o \in themer(fs, uploaded, pathToFiles(files[i]), s) :
            /\ uploaded' = o.up
            /\ IF o.err # Nil
               THEN /\ fs' = RemoveAll(o.fs, src(files[i]))
                    /\ log' = log \o <<Event("transform", i, o.err, s # 0, s),
                                        Event("deleteSrc", i, Nil, FALSE, 0)>>
                    /\ Return(files[i], o.err)
               ELSE /\ fs' = o.fs
                    /\ log' = Append(log, Event("transform", i, o.err, s # 0, s))
                    /\ pc' = "deleteTemplate"
                    /\ pfRet' = pfRet
    /\ UNCHANGED <<origin, files, i, tmpFile, tmpSeq, ret>>

\* The themer started and not waited for.
Transform_notAwaited ==
    /\ pc = "transform"
    /\ pc' = "deleteTemplate"
    /\ UNCHANGED <<origin, files, i, tmpFile, tmpSeq, fs, log, uploaded, pfRet, ret>>

\* The themer's error logged but not returned.
Transform_errIgnored ==
    /\ pc = "transform"
    /\ \E s \in ProcessEnds :
        \E o \in themer(fs, uploaded, pathToFiles(files[i]), s) :
            /\ fs' = o.fs
            /\ uploaded' = o.up
            /\ log' = Append(log, Event("transform", i, o.err, s # 0, s))
            /\ pc' = "deleteTemplate"
            /\ pfRet' = pfRet
    /\ UNCHANGED <<origin, files, i, tmpFile, tmpSeq, ret>>

\* processFile, lines 65-73.
Transform ==
    /\ pc = "transform"
    /\ \E s \in ProcessEnds :
        \E o \in themer(fs, uploaded, pathToFiles(files[i]), s) :
            /\ fs' = o.fs
            /\ uploaded' = o.up
            /\ log' = Append(log, Event("transform", i, o.err, s # 0, s))
            /\ IF o.err # Nil
               THEN Return(files[i], o.err)
               ELSE /\ pc' = "deleteTemplate"
                    /\ pfRet' = pfRet
    /\ UNCHANGED <<origin, files, i, tmpFile, tmpSeq, ret>>

\* The error of removing the template not returned.
DeleteTemplate_errIgnored ==
    /\ pc = "deleteTemplate"
    /\ StageStepUnchecked("deleteTemplate",
                          deleteSrc(fs, uploaded, pathToFiles(files[i])), "zip")
    /\ UNCHANGED <<origin, files, i, tmpFile, tmpSeq, ret>>

\* processFile, lines 76-78.
DeleteTemplate ==
    /\ pc = "deleteTemplate"
    /\ StageStep("deleteTemplate", deleteSrc(fs, uploaded, pathToFiles(files[i])), "zip")
    /\ UNCHANGED <<origin, files, i, tmpFile, tmpSeq, ret>>

\* processFile, lines 80-83.
ZipResult ==
    /\ pc = "zip"
    /\ StageStep("zip", Zip(fs, uploaded, src(files[i]), resultFilePath(files[i])), "upload")
    /\ UNCHANGED <<origin, files, i, tmpFile, tmpSeq, ret>>

\* An upload that is tried a second time when the first attempt fails.
AttachFile_retryOnce ==
    /\ pc = "upload"
    /\ \E o \in AttachFileTo(fs, uploaded, Channel, resultFilePath(files[i]),
                             defaultResultFilename) :
        /\ fs' = o.fs
        /\ uploaded' = o.up
        /\ log' = Append(log, Event("upload", i, o.err, o.err # Nil, 0))
        /\ IF o.err = Nil
           THEN /\ pc' = "deleteSrc"
                /\ pfRet' = pfRet
           ELSE IF \A n \in DOMAIN log : ~(log[n].stage = "upload" /\ log[n].idx = i)
           THEN /\ pc' = pc
                /\ pfRet' = pfRet
           ELSE Return(files[i], o.err)
    /\ UNCHANGED <<origin, files, i, tmpFile, tmpSeq, ret>>

\* processFile, lines 87-89.
AttachFile ==
    /\ pc = "upload"
    /\ StageStep("upload",
                 AttachFileTo(fs, uploaded, Channel, resultFilePath(files[i]),
                              defaultResultFilename),
                 "deleteSrc")
    /\ UNCHANGED <<origin, files, i, tmpFile, tmpSeq, ret>>

\* A final cleanup whose error is not returned.
DeleteSrc_errIgnored ==
    /\ pc = "deleteSrc"
    /\ \E o \in deleteSrc(fs, uploaded, src(files[i])) :
        /\ fs' = o.fs
        /\ uploaded' = o.up
        /\ log' = Append(log, Event("deleteSrc", i, o.err, o.err # Nil, 0))
        /\ Return(files[i], Nil)
    /\ UNCHANGED <<origin, files, i, tmpFile, tmpSeq, ret>>

\* A final cleanup that removes the template directory, not src.
DeleteSrc_template ==
    /\ pc = "deleteSrc"
    /\ \E o \in deleteSrc(fs, uploaded, pathToFiles(files[i])) :
        /\ fs' = o.fs
        /\ uploaded' = o.up
        /\ log' = Append(log, Event("deleteSrc", i, o.err, o.err # Nil, 0))
        /\ Return(files[i], o.err)
    /\ UNCHANGED <<origin, files, i, tmpFile, tmpSeq, ret>>

\* processFile, lines 91-95.
DeleteSrc ==
    /\ pc = "deleteSrc"
    /\ \E o \in deleteSrc(fs, uploaded, src(files[i])) :
        /\ fs' = o.fs
        /\ uploaded' = o.up
        /\ log' = Append(log, Event("deleteSrc", i, o.err, o.err # Nil, 0))
        /\ Return(files[i], o.err)
    /\ UNCHANGED <<origin, files, i, tmpFile, tmpSeq, ret>>

\* A loop that goes on to the next attachment whatever processFile returned.
CheckResult_continue ==
    /\ pc = "returned"
    /\ pc' = "loop"
    /\ i' = i + 1
    /\ tmpFile' = <<>>
    /\ UNCHANGED <<origin, files, tmpSeq, fs, log, uploaded, pfRet, ret>>

\* A failure returned with the empty attachment.
CheckResult_emptyFile ==
    /\ pc = "returned"
    /\ IF pfRet.err # Nil
       THEN /\ ret' = [done |-> TRUE, file |-> EmptyFile, err |-> pfRet.err]
            /\ pc' = "done"
            /\ i' = i
       ELSE /\ pc' = "loop"
            /\ i' = i + 1
            /\ ret' = ret
    /\ tmpFile' = <<>>
    /\ UNCHANGED <<origin, files, tmpSeq, fs, log, uploaded, pfRet>>

\* processFiles, lines 138-141: the result of processFile.
CheckResult ==
    /\ pc = "returned"
    /\ IF pfRet.err # Nil
       THEN /\ ret' = [done |-> TRUE, file |-> pfRet.file, err |-> pfRet.err]
            /\ pc' = "done"
            /\ i' = i
       ELSE /\ pc' = "loop"
            /\ i' = i + 1
            /\ ret' = ret
    /\ tmpFile' = <<>>
    /\ UNCHANGED <<origin, files, tmpSeq, fs, log, uploaded, pfRet>>

Next ==
    \/ ValidateFiles
    \/ LoopNext
    \/ DownloadFile
    \/ UnzipFile
    \/ Transform
    \/ DeleteTemplate
    \/ ZipResult
    \/ AttachFile
    \/ DeleteSrc
    \/ CheckResult

Spec == Init /\ [][Next]_vars

\* Every step but the end of the themer process.
NextButTransform ==
    \/ ValidateFiles
    \/ LoopNext
    \/ DownloadFile
    \/ UnzipFile
    \/ DeleteTemplate
    \/ ZipResult
    \/ AttachFile
    \/ DeleteSrc
    \/ CheckResult

\* The run goes on as long as it can: the calls to the transport, the
\* archive helper, the filesystem and slack return.  cmd.Run() has no
\* timeout, so nothing makes the themer end.
SpecLive == Init /\ [][Next]_vars /\ WF_vars(NextButTransform)

\* ------------------------------------------------------------ two runs
\* Two messages handled at once: each run is processFile on one validated
\* attachment, the runs share the disk and the channel, and their stages
\* interleave in any order.  files, pc, tmpFile and pfRet hold one value per
\* run; the disk starts empty.
Runs == {1, 2}
Other(r) == CHOOSE o \in Runs : o # r

UploadKey(n) == <<"channel", ToString(n)>>
OriginOf(q) == IF q \in DOMAIN origin THEN origin[q] ELSE {}
Put(m, q, c) == [x \in DOMAIN m \cup {q} |-> IF x = q THEN c ELSE m[x]]
\* origin without the files that are no longer on disk.
Kept(nfs) ==
    [q \in {x \in DOMAIN origin : x \in nfs \/ Head(x) = "channel"} |-> origin[q]]
\* Everything at or below root.
ContentUnder(root) == UNION {OriginOf(q) : q \in {x \in fs : Under(x, root)}}

InitTwoRuns ==
    /\ files \in [Runs -> {f \in Files : isValidFile(f.Filetype)}]
    /\ pc = [r \in Runs |-> "download"]
    /\ i = 0
    /\ tmpFile = [r \in Runs |-> <<>>]
    /\ tmpSeq = 0
    /\ fs = {}
    /\ log = <<>>
    /\ uploaded = <<>>
    /\ pfRet = [r \in Runs |-> [file |-> EmptyFile, err |-> Nil]]
    /\ ret = [done |-> FALSE, file |-> EmptyFile, err |-> Nil]
    /\ origin = <<>>

\* `if err != nil { return file, err }` in run r.
Finish2(r, err, next) ==
    IF err # Nil
    THEN /\ pfRet' = [pfRet EXCEPT ![r] = [file |-> files[r], err |-> err]]
         /\ pc' = [pc EXCEPT ![r] = "returned"]
    ELSE /\ pc' = [pc EXCEPT ![r] = next]
         /\ pfRet' = pfRet

\* One stage of run r; after an outcome in wrote, the file w holds content c.
Stage2(r, outs, next, w, c, wrote) ==
    \E o \in outs :
        /\ fs' = o.fs
        /\ uploaded' = o.up
        /\ origin' = IF o \in wrote THEN Put(Kept(o.fs), w, c) ELSE Kept(o.fs)
        /\ Finish2(r, o.err, next)

\* processFile, lines 46-49, in run r.
Download2(r) ==
    /\ pc[r] = "download"
    /\ \E net \in NetOutcomes, io \in IoOutcomes :
        LET d == downloadFile(net, io, tmpSeq + 1)
            name == TempFileName(tmpSeq + 1)
        IN  /\ tmpSeq' = IF d.created THEN tmpSeq + 1 ELSE tmpSeq
            /\ fs' = IF d.created THEN fs \cup {name} ELSE fs
            /\ origin' = IF d.created THEN Put(origin, name, {r}) ELSE origin
            /\ tmpFile' = [tmpFile EXCEPT ![r] = d.tmpFile]
            /\ Finish2(r, d.err, "unzip")
    /\ UNCHANGED <<files, i, log, uploaded, ret>>

\* processFile, lines 56-59, in run r: the archive's files are written
\* into the template directory, beside what is there.
Unzip2(r) ==
    /\ pc[r] = "unzip"
    /\ LET dest == pathToFiles(files[r])
           outs == Unzip(fs, uploaded, tmpFile[r], dest)
       IN  Stage2(r, outs, "transform",
                  payloadOf(dest), OriginOf(tmpFile[r]) \cup OriginOf(payloadOf(dest)),
                  {o \in outs : o.err = Nil})
    /\ UNCHANGED <<files, i, tmpFile, tmpSeq, log, ret>>

\* processFile, lines 65-73, in run r: the output derives from the template.
Transform2(r) ==
    /\ pc[r] = "transform"
    /\ \E s \in ProcessEnds :
        LET path == pathToFiles(files[r])
            out == outputOf(src(files[r]))
            outs == themer(fs, uploaded, path, s)
        IN  Stage2(r, outs, "deleteTemplate",
                   out, ContentUnder(path) \cup OriginOf(out),
                   {o \in outs : s # -1 /\ out \in o.fs})
    /\ UNCHANGED <<files, i, tmpFile, tmpSeq, log, ret>>

\* processFile, lines 76-78, in run r.
DeleteTemplate2(r) ==
    /\ pc[r] = "deleteTemplate"
    /\ Stage2(r, deleteSrc(fs, uploaded, pathToFiles(files[r])), "zip", <<>>, {}, {})
    /\ UNCHANGED <<files, i, tmpFile, tmpSeq, log, ret>>

\* processFile, lines 80-83, in run r: the archive holds what is below src.
Zip2(r) ==
    /\ pc[r] = "zip"
    /\ LET res == resultFilePath(files[r])
           outs == Zip(fs, uploaded, src(files[r]), res)
       IN  Stage2(r, outs, "upload", res, ContentUnder(src(files[r])),
                  {o \in outs : src(files[r]) \in fs /\ res \in o.fs})
    /\ UNCHANGED <<files, i, tmpFile, tmpSeq, log, ret>>

\* processFile, lines 87-89, in run r: the channel gets the file at
\* resultFilePath as it is then.
Attach2(r) ==
    /\ pc[r] = "upload"
    /\ LET res == resultFilePath(files[r])
           outs == AttachFileTo(fs, uploaded, Channel, res, defaultResultFilename)
       IN  Stage2(r, outs, "deleteSrc", UploadKey(Len(uploaded) + 1), OriginOf(res),
                  {o \in outs : o.err = Nil})
    /\ UNCHANGED <<files, i, tmpFile, tmpSeq, log, ret>>

\* processFile, lines 91-95, in run r.
DeleteSrc2(r) ==
    /\ pc[r] = "deleteSrc"
    /\ \E o \in deleteSrc(fs, uploaded, src(files[r])) :
        /\ fs' = o.fs
        /\ uploaded' = o.up
        /\ origin' = Kept(o.fs)
        /\ pfRet' = [pfRet EXCEPT ![r] = [file |-> files[r], err |-> o.err]]
        /\ pc' = [pc EXCEPT ![r] = "returned"]
    /\ UNCHANGED <<files, i, tmpFile, tmpSeq, log, ret>>

NextTwoRuns ==
    \E r \in Runs :
        \/ Download2(r)
        \/ Unzip2(r)
        \/ Transform2(r)
        \/ DeleteTemplate2(r)
        \/ Zip2(r)
        \/ Attach2(r)
        \/ DeleteSrc2(r)

SpecTwoRuns == InitTwoRuns /\ [][NextTwoRuns]_vars

\* ================================================================ claims
Supported == {"zip"}
InvalidIdx == {k \in 1..Len(files) : files[k].Filetype \notin Supported}
Min(S) == CHOOSE k \in S : \A j \in S : k <= j
IsPrefixOf(a, b) == Len(a) <= Len(b) /\ SubSeq(b, 1, Len(a)) = a
EventsOf(stage, k) == {n \in DOMAIN log : log[n].stage = stage /\ log[n].idx = k}
IsUpload(e) == e.stage = "upload"
UploadCalls == SelectSeq(log, IsUpload)
UploadOf(file) ==
    [channel |-> Channel, path |-> resultFilePath(file), name |-> "result.zip"]

\* C1: once validation has run on a batch holding an attachment of an
\* unsupported type, processFiles has returned the validation error with the
\* first such attachment and no stage has run for any attachment; on a batch
\* of supported types validation reports no failure.
C1_ValidationGate ==
    pc # "validate" =>
        IF InvalidIdx # {}
        THEN /\ pc = "done"
             /\ ret = [done |-> TRUE, file |-> files[Min(InvalidIdx)],
                       err |-> Err("WrongFileType", 0)]
             /\ Len(log) = 1
             /\ log[1].stage = "validate"
             /\ uploaded = <<>>
             /\ tmpSeq = 0
        ELSE /\ log[1].stage = "validate"
             /\ log[1].err = Nil
             /\ ret.err.kind # "WrongFileType"

\* A batch whose second attachment is the unsupported one has been refused.
C1_Witness ==
    /\ pc = "done"
    /\ Len(files) = 2
    /\ files[1].Filetype = "zip"
    /\ files[2].Filetype = "rar"
    /\ ret.err.kind = "WrongFileType"

\* What C2 says of every state.
C2_Prefix ==
    /\ Len(UploadCalls) <= Len(files)
    /\ \A n \in 1..Len(UploadCalls) : UploadCalls[n].idx = n
    /\ IsPrefixOf(uploaded, [n \in 1..Len(files) |-> UploadOf(files[n])])
    /\ Len(uploaded) = Cardinality({n \in DOMAIN log : IsUpload(log[n]) /\ ~log[n].fault})
    /\ (ret.done /\ InvalidIdx = {} /\ \A n \in DOMAIN log : ~log[n].fault)
          => Len(uploaded) = Len(files) /\ Len(UploadCalls) = Len(files)
    /\ \A m \in DOMAIN log : log[m].fault =>
          \A n \in DOMAIN log : n > m => ~IsUpload(log[n])

\* C2: on a batch of valid attachments the uploads are a prefix of the batch
\* in its order, one per attachment when no stage fails, none after a failed
\* stage, and an upload made is never taken back.
C2_UploadsPrefix ==
    []C2_Prefix /\ [][IsPrefixOf(uploaded, uploaded')]_vars

\* The second attachment of a batch failed after the first was uploaded.
C2_Witness ==
    /\ pc = "done"
    /\ Len(files) = 2
    /\ ret.err # Nil
    /\ Len(uploaded) = 1
    /\ log[Len(log)].idx = 2

\* C3: an upload call for an attachment is preceded by a run of the themer
\* for that attachment that ended with status 0; a themer that failed or
\* could not be started is followed by no upload for that attachment.
C3_UploadOnlyAfterTransform ==
    /\ \A n \in DOMAIN log : IsUpload(log[n]) =>
          \E m \in 1..(n - 1) :
              /\ log[m].stage = "transform"
              /\ log[m].idx = log[n].idx
              /\ log[m].status = 0
    /\ \A m \in DOMAIN log : (log[m].stage = "transform" /\ log[m].status # 0) =>
          EventsOf("upload", log[m].idx) = {}
    /\ \A n \in 1..Len(uploaded) :
          \E m \in EventsOf("transform", n) : log[m].status = 0

\* One attachment was uploaded and the themer failed on the next.
C3_Witness ==
    /\ Len(uploaded) = 1
    /\ \E m \in EventsOf("transform", 2) : log[m].status = -1

\* C4: when the themer exits with a status s > 0, processFile returns the
\* attachment with an error carrying s, and neither the removal of the
\* template, nor Zip, nor AttachFileTo is called for that attachment.
C4_TransformError ==
    \A n \in DOMAIN log : (log[n].stage = "transform" /\ log[n].status > 0) =>
        /\ n = Len(log)
        /\ pc \in {"returned", "done"}
        /\ pfRet = [file |-> files[log[n].idx], err |-> Err("ExitError", log[n].status)]
        /\ \A st \in {"deleteTemplate", "zip", "upload"} : EventsOf(st, log[n].idx) = {}

\* The themer exited with status 2 on the second attachment.
C4_Witness ==
    /\ pc = "returned"
    /\ \E n \in EventsOf("transform", 2) : log[n].status = 2

TemplateAbsent(nfs, file) == \A q \in nfs : ~Under(q, pathToFiles(file))
ZipStep == Len(log') = Len(log) + 1 /\ log'[Len(log')].stage = "zip"

\* What C5 says of every state.
C5_Order ==
    /\ \A n \in DOMAIN log : log[n].stage = "zip" =>
          \E m \in 1..(n - 1) :
              /\ log[m].stage = "deleteTemplate"
              /\ log[m].idx = log[n].idx
              /\ ~log[m].fault
    /\ \A m \in DOMAIN log : (log[m].stage = "deleteTemplate" /\ log[m].fault) =>
          EventsOf("zip", log[m].idx) = {} /\ EventsOf("upload", log[m].idx) = {}

\* C5: Zip is called for an attachment only after the removal of its
\* template directory succeeded and in a state where nothing of that
\* directory exists, and the archive is written with it still absent; a
\* failed removal is followed by neither Zip nor upload.
C5_TemplateRemovedBeforeZip ==
    /\ []C5_Order
    /\ [][ZipStep => /\ TemplateAbsent(fs, files[i])
                      /\ TemplateAbsent(fs', files[i])]_vars

\* The archive of an attachment was built beside the themer's output.
C5_Witness ==
    /\ pc = "upload"
    /\ resultFilePath(files[i]) \in fs
    /\ outputOf(src(files[i])) \in fs
    /\ EventsOf("zip", i) # {}

\* C6: when processFile returns no error for an attachment, nothing exists
\* at or below its staging root, and the removal was the call made right
\* after the successful upload of that attachment.
C6_StagingRemoved ==
    (pc = "returned" /\ pfRet.err = Nil) =>
        /\ pfRet.file = files[i]
        /\ \A q \in fs : ~Under(q, src(pfRet.file))
        /\ Len(log) >= 2
        /\ log[Len(log)].stage = "deleteSrc"
        /\ log[Len(log)].idx = i
        /\ ~log[Len(log)].fault
        /\ log[Len(log) - 1].stage = "upload"
        /\ log[Len(log) - 1].idx = i
        /\ ~log[Len(log) - 1].fault

\* processFile returned no error for the second attachment of a batch.
C6_Witness ==
    /\ pc = "returned"
    /\ pfRet.err = Nil
    /\ i = 2
    /\ Len(uploaded) = 2

\* processFile has returned for attachment k.
Returned(k) == i > k \/ (i = k /\ pc \in {"returned", "done"})

\* C7: every attachment whose archive was extracted, so that its staging
\* root exists, has had exactly one removal of the staging root by the time
\* processFile returns for it, whatever the outcome.
C7_TeardownOnce ==
    \A k \in 1..Len(files) :
        (Returned(k) /\ \E n \in EventsOf("unzip", k) : ~log[n].fault)
            => Cardinality(EventsOf("deleteSrc", k)) = 1

StageOrder ==
    <<"download", "unzip", "transform", "deleteTemplate", "zip", "upload", "deleteSrc">>
Failed == log # <<>> /\ log[Len(log)].fault

\* What C8 says of every state.
C8_Order ==
    /\ log # <<>> => log[1].stage = "validate"
    /\ \A n \in 2..Len(log) :
          /\ log[n].stage = StageOrder[((n - 2) % Len(StageOrder)) + 1]
          /\ log[n].idx = ((n - 2) \div Len(StageOrder)) + 1
          /\ log[n].idx <= Len(files)
    /\ \A n \in 1..(Len(log) - 1) : ~log[n].fault /\ log[n].err = Nil
    /\ Failed => pc \in {"returned", "done"}

\* C8: the calls of a run are, after validation, the seven stages in their
\* order for the first attachment, then for the second, and so on; a call is
\* made only when every call before it succeeded; after a failed call no
\* call is made and nothing on disk or in the channel changes.
C8_StageOrder ==
    /\ []C8_Order
    /\ [][Failed => log' = log /\ fs' = fs /\ uploaded' = uploaded]_vars

\* The themer failed on the first of two attachments and the run ended.
C8_Witness ==
    /\ pc = "done"
    /\ Len(files) = 2
    /\ Len(log) = 4
    /\ log[4].stage = "transform"
    /\ log[4].fault

\* C9: a run that ends with an error returns the error of the call that
\* failed and the attachment that call was made for (the first attachment
\* of an unsupported type when validation failed); a run that ends without
\* error returns the empty attachment.
C9_ReturnedAttachment ==
    ret.done =>
        LET e == log[Len(log)]
        IN  /\ ret.err # Nil =>
                /\ e.err = ret.err
                /\ e.stage = "validate" => ret.file = files[Min(InvalidIdx)]
                /\ e.stage # "validate" => e.fault /\ ret.file = files[e.idx]
            /\ ret.err = Nil => ret.file = EmptyFile /\ ~Failed

\* Packaging failed on the second attachment, which differs from the first.
C9_Witness ==
    /\ pc = "done"
    /\ Len(files) = 2
    /\ files[1] # files[2]
    /\ ret.err = Err("Zip", 0)
    /\ ret.file = files[2]

\* C10: a run returns no error exactly when every attachment is of a
\* supported type and every one of the seven stages was called for every
\* attachment and none of those calls failed.
C10_NoErrorSwallowed ==
    ret.done =>
        (ret.err = Nil <=>
            /\ InvalidIdx = {}
            /\ Len(log) = 1 + Len(StageOrder) * Len(files)
            /\ \A n \in DOMAIN log : ~log[n].fault)

\* A batch of two attachments went through without error.
C10_Witness ==
    /\ ret.done
    /\ ret.err = Nil
    /\ Len(files) = 2

\* Attachment k has had a call made for it; its processing has ended, by
\* the final cleanup or by a failed call.
Started(k) == \E n \in DOMAIN log : log[n].idx = k
Ended(k) ==
    \E n \in DOMAIN log : log[n].idx = k /\ (log[n].fault \/ log[n].stage = "deleteSrc")
CleanedUp(k) == \E n \in EventsOf("deleteSrc", k) : ~log[n].fault

\* C11: a call is made for an attachment only after the final cleanup of
\* the attachment before it succeeded, and at most one attachment of the
\* batch is between its first call and its end.
C11_Sequential ==
    /\ \A n \in DOMAIN log : log[n].idx >= 2 =>
          \E m \in 1..(n - 1) :
              /\ log[m].stage = "deleteSrc"
              /\ log[m].idx = log[n].idx - 1
              /\ ~log[m].fault
    /\ Cardinality({k \in 1..Len(files) : Started(k) /\ ~Ended(k)}) <= 1
    /\ \A k \in 1..Len(files) : (Started(k) /\ ~Ended(k)) => k = i

\* The second attachment is in the themer while the first is cleaned up.
C11_Witness ==
    /\ pc = "transform"
    /\ i = 2
    /\ CleanedUp(1)
    /\ Started(2)

\* The paths a step creates or removes.
ChangedPaths == (fs' \ fs) \cup (fs \ fs')

\* What C12 says of every state: the staging root depends on the identifier
\* alone, and distinct identifiers have distinct roots, neither inside the
\* other.
C12_Paths ==
    \A a, b \in 1..Len(files) :
        /\ files[a].ID = files[b].ID => src(files[a]) = src(files[b])
        /\ files[a].ID # files[b].ID =>
              /\ src(files[a]) # src(files[b])
              /\ ~Under(src(files[a]), src(files[b]))

\* C12: the staging root of an attachment is a function of its identifier,
\* distinct identifiers give distinct roots, and every path a step creates
\* or removes is the download's temporary file or lies at or below the
\* staging root of the attachment in flight, never at or below the root of
\* an attachment of the batch with another identifier.
C12_StagingUnique ==
    /\ []C12_Paths
    /\ [][ChangedPaths # {} =>
            /\ i \in 1..Len(files)
            /\ \A q \in ChangedPaths :
                  /\ Under(q, src(files[i])) \/ q = TempFileName(tmpSeq')
                  /\ \A k \in 1..Len(files) :
                        files[k].ID # files[i].ID => ~Under(q, src(files[k]))]_vars

\* The archive of "F12" is built after "F1" went through, in a batch of both.
C12_Witness ==
    /\ pc = "upload"
    /\ i = 2
    /\ files[1].ID = <<"F1">>
    /\ files[2].ID = <<"F1", "2">>
    /\ resultFilePath(files[2]) \in fs

DistinctIds == files[1].ID # files[2].ID

\* What C13 says of every state of two runs: with distinct identifiers the
\* staging roots are apart, every file at or below the root of a run, and
\* every archive uploaded from it, derives from that run's download alone;
\* with equal identifiers the two runs work in one staging root.
C13_Apart ==
    /\ DistinctIds =>
          /\ \A r \in Runs : ~Under(src(files[r]), src(files[Other(r)]))
          /\ \A r \in Runs : \A q \in fs :
                Under(q, src(files[r])) => OriginOf(q) \subseteq {r}
          /\ \A n \in 1..Len(uploaded) : \A r \in Runs :
                uploaded[n].path = resultFilePath(files[r])
                    => OriginOf(UploadKey(n)) \subseteq {r}
    /\ ~DistinctIds => src(files[1]) = src(files[2])

\* C13: when two runs on attachments with distinct identifiers interleave,
\* no step of one run creates or removes a path at or below the staging
\* root of the other, and each run uploads an archive that derives from its
\* own download alone; the separation rests on the identifiers alone.
C13_RunsIsolated ==
    /\ []C13_Apart
    /\ [][DistinctIds =>
            \A r \in Runs : pc'[r] # pc[r] =>
                \A q \in ChangedPaths : ~Under(q, src(files[Other(r)]))]_vars

\* Both runs, on "F1" and "F12", have uploaded their own archive and both
\* staging roots are still on disk.
C13_Witness ==
    /\ files[1].ID = <<"F1">>
    /\ files[2].ID = <<"F1", "2">>
    /\ pc[1] = "deleteSrc"
    /\ pc[2] = "deleteSrc"
    /\ Len(uploaded) = 2
    /\ uploaded[1].path = resultFilePath(files[2])
    /\ OriginOf(UploadKey(1)) = {2}
    /\ OriginOf(UploadKey(2)) = {1}

\* Two runs on one identifier: an uploaded archive that derives from both
\* downloads (a state the two runs reach).
C13_SameIdMixed ==
    /\ ~DistinctIds
    /\ \E n \in 1..Len(uploaded) : OriginOf(UploadKey(n)) = Runs

\* C14: no call is made twice: in a run every stage is called at most once
\* for an attachment, and an upload that fails is the only upload call for
\* its attachment and the last call of the run.
C14_NoRetry ==
    /\ Cardinality(EventsOf("validate", 0)) <= 1
    /\ \A k \in 1..Len(files) : \A n \in 1..Len(StageOrder) :
          Cardinality(EventsOf(StageOrder[n], k)) <= 1
    /\ \A n \in DOMAIN log : (log[n].stage = "upload" /\ log[n].fault) =>
          /\ Cardinality(EventsOf("upload", log[n].idx)) = 1
          /\ n = Len(log)
          /\ pc \in {"returned", "done"}
          /\ pfRet = [file |-> files[log[n].idx], err |-> Err("AttachFileTo", 0)]

\* The upload of the second attachment failed and the run ended.
C14_Witness ==
    /\ pc = "done"
    /\ i = 2
    /\ ret.err = Err("AttachFileTo", 0)
    /\ Len(uploaded) = 1

RequestErrors == {"NewRequest", "NilResponse", "ReadAll", "BadStatus"}
DownloadStep == Len(log') = Len(log) + 1 /\ log'[Len(log')].stage = "download"

\* What C15 says of every state: request answers a response of status 400
\* or more with an error and that status, and a response read with a lower
\* status without error; a download that got such a status returned the
\* error with its attachment as the last call of the run, before Unzip.
C15_Request ==
    /\ \A net \in NetOutcomes : net.kind = "resp" =>
          /\ request(net).status = net.status
          /\ request(net).err # Nil <=> net.status >= 400
    /\ \A n \in DOMAIN log : log[n].stage = "download" =>
          /\ log[n].status >= 400 =>
                /\ log[n].err = Err("BadStatus", log[n].status)
                /\ n = Len(log)
                /\ pc \in {"returned", "done"}
                /\ pfRet = [file |-> files[log[n].idx], err |-> log[n].err]
                /\ EventsOf("unzip", log[n].idx) = {}
          /\ (log[n].status > 0 /\ log[n].status < 400) =>
                log[n].err.kind \notin RequestErrors

\* C15: the transport reports an error, with the status, for every response
\* of status 400 or more and none for a response read with a lower status;
\* a download refused this way ends the run before a temporary file is
\* created and before extraction.
C15_BadStatusAborts ==
    /\ []C15_Request
    /\ [][(DownloadStep /\ log'[Len(log')].status >= 400) =>
            /\ fs' = fs
            /\ tmpSeq' = tmpSeq
            /\ tmpFile' = <<>>]_vars

\* The download of the second attachment was answered with status 400.
C15_Witness ==
    /\ pc = "done"
    /\ i = 2
    /\ log[Len(log)].stage = "download"
    /\ log[Len(log)].status = 400
    /\ ret.err = Err("BadStatus", 400)

\* The run has returned: without error after the final cleanup of every
\* attachment, or with the error of validation or of a failed call.
Finished ==
    /\ ret.done
    /\ ret.err = Nil => \A k \in 1..Len(files) : CleanedUp(k)
    /\ ret.err # Nil => Failed \/ InvalidIdx # {}
TransformPending == pc = "transform"
TransformEnds ==
    /\ Len(log') = Len(log) + 1
    /\ log'[Len(log')].stage = "transform"
    /\ log'[Len(log')].idx = i

\* What C16 says of a state where the themer is running: the run has not
\* returned and no call after the themer has been made for its attachment,
\* nor any call for a later attachment.
C16_Pending ==
    TransformPending =>
        /\ ~ret.done
        /\ \A n \in DOMAIN log : log[n].idx <= i
        /\ \A st \in {"transform", "deleteTemplate", "zip", "upload", "deleteSrc"} :
              EventsOf(st, i) = {}

\* C16: a run returns, cleaned up or failed, unless the themer runs for
\* ever; while the themer runs nothing else happens, and the only step out
\* of that state is the end of the themer.
C16_Termination ==
    /\ <>[]TransformPending \/ <>Finished
    /\ []C16_Pending
    /\ [][TransformPending => TransformEnds]_vars

\* The themer is running on the second attachment.
C16_Witness ==
    /\ TransformPending
    /\ i = 2
    /\ CleanedUp(1)
    /\ Len(uploaded) = 1

LateStages == {"unzip", "transform", "deleteTemplate", "zip", "upload"}
LateFailure(n) == log[n].stage \in LateStages /\ log[n].fault

\* What C17 says of every state: after a failed call of a stage from
\* extraction on, processFile has returned the error, the staging root has
\* not been removed, and the root created by extraction, the template
\* directory whose removal failed and the archive whose upload failed are
\* on disk.
C17_Left ==
    \A n \in DOMAIN log : LateFailure(n) =>
        LET f == files[log[n].idx]
        IN  /\ n = Len(log)
            /\ pfRet = [file |-> f, err |-> log[n].err]
            /\ EventsOf("deleteSrc", log[n].idx) = {}
            /\ log[n].stage # "unzip" => src(f) \in fs
            /\ log[n].stage = "deleteTemplate" => pathToFiles(f) \in fs
            /\ log[n].stage = "upload" => resultFilePath(f) \in fs

\* C17: when processFile returns an error of extraction, themer, template
\* removal, packaging or upload, no removal of the staging root has been
\* called for that attachment, and the failing call removed nothing but,
\* for the template removal, part of the template: what the stages created
\* below the staging root stays on disk.
C17_NoTeardownOnFailure ==
    /\ []C17_Left
    /\ [][(/\ Len(log') > Len(log)
            /\ log'[Len(log')].stage \in LateStages
            /\ log'[Len(log')].fault) =>
            \A q \in fs \ fs' :
                /\ log'[Len(log')].stage = "deleteTemplate"
                /\ Under(q, pathToFiles(files[i]))]_vars

\* Packaging failed for the second attachment with the themer's output on
\* disk.
C17_Witness ==
    /\ pc = "done"
    /\ i = 2
    /\ ret.err = Err("Zip", 0)
    /\ outputOf(src(ret.file)) \in fs

\* C18: when the removal of the staging root of attachment k fails after
\* its upload, processFile returns that error with attachment k, it is the
\* last call of the run (none is made for a later attachment), processFiles
\* returns the same pair, and the upload of k stays in the channel.
C18_CleanupFailure ==
    \A n \in DOMAIN log : (log[n].stage = "deleteSrc" /\ log[n].fault) =>
        LET k == log[n].idx
        IN  /\ n = Len(log)
            /\ \A m \in DOMAIN log : log[m].idx <= k
            /\ log[n].err = Err("RemoveAll", 0)
            /\ pfRet = [file |-> files[k], err |-> log[n].err]
            /\ pc \in {"returned", "done"}
            /\ pc = "done" => ret = [done |-> TRUE, file |-> files[k], err |-> log[n].err]
            /\ \E m \in EventsOf("upload", k) : ~log[m].fault
            /\ Len(uploaded) = k
            /\ uploaded[k] = UploadOf(files[k])

\* The final cleanup of the first of two attachments failed and the run
\* ended.
C18_Witness ==
    /\ pc = "done"
    /\ Len(files) = 2
    /\ log[Len(log)].stage = "deleteSrc"
    /\ log[Len(log)].idx = 1
    /\ log[Len(log)].fault
    /\ Len(uploaded) = 1

\* The temporary files the run's downloads created, the downloads that
\* succeeded, and the downloads in which ioutil.TempFile succeeded.
TempFiles == {TempFileName(n) : n \in 1..tmpSeq}
DownloadsOk == {n \in DOMAIN log : log[n].stage = "download" /\ ~log[n].fault}
DownloadsCreated ==
    {n \in DOMAIN log :
        log[n].stage = "download" /\ log[n].err.kind \in {"nil", "Write", "Close"}}
TempOutside ==
    \A q \in TempFiles : \A k \in 1..Len(files) : ~Under(q, src(files[k]))

\* C19 as stated: the temporary files are outside every staging root, the
\* file of every successful download is on disk, and when the run has
\* returned there are as many temporary files on disk as downloads that
\* succeeded.
C19_LeftoverEqualsSucceeded ==
    /\ TempOutside
    /\ Cardinality(TempFiles \cap fs) >= Cardinality(DownloadsOk)
    /\ ret.done => Cardinality(TempFiles \cap fs) = Cardinality(DownloadsOk)

\* What the amended C19 says of every state.
C19_Leftover ==
    /\ TempOutside
    /\ TempFiles \subseteq fs
    /\ tmpFile # <<>> => tmpFile \in fs
    /\ Cardinality(TempFiles \cap fs) >= Cardinality(DownloadsOk)
    /\ Cardinality(TempFiles \cap fs) = Cardinality(DownloadsCreated)

\* C19 (amended): the temporary file of a download is outside every staging
\* root and no step removes it; the temporary files on disk are as many as
\* the downloads in which the file was created, a failed Write or Close
\* included, hence at least as many as the downloads that succeeded.
C19_TempFilesLeft ==
    /\ []C19_Leftover
    /\ [][\A q \in TempFiles \cap fs : q \in fs']_vars

\* A run has returned with two temporary files on disk and one successful
\* download: the second download failed after its file was created.
C19_Witness ==
    /\ ret.done
    /\ Cardinality(TempFiles \cap fs) = 2
    /\ Cardinality(DownloadsOk) = 1
    /\ CleanedUp(1)
====
